---- MODULE Spec2Model ----
(***************************************************************************)
(* Model of the MOT vehicle-data ETL: main.main (the orchestration loop),  *)
(* etl.load (one transactional load of one catalog entry) and              *)
(* etl.extractor (probe + offset pagination with a retrying HTTP session). *)
(*                                                                         *)
(* The database is modelled as seen by two sessions, as in the code: the   *)
(* psycopg2 connection of load (autocommit off, so DROP/CREATE/INSERT are  *)
(* pending until commit) and the SQLAlchemy engine that DataFrame.to_sql   *)
(* uses for the staging table (its own transaction, committed at once).    *)
(***************************************************************************)
EXTENDS Integers, Sequences, FiniteSets, TLC

(***************************************************************************)
(* Bounds of the model and constants of the program                        *)
(***************************************************************************)
CatalogLen == 2          \* entries of the catalog that main iterates
MaxPages   == 2          \* the declared total is at most MaxPages * limit
limit      == 10000      \* page size of extractor
RetryTotal == 3          \* Retry(total=3): retries after the first attempt

\* target-table names a catalog entry may carry; one is not in lower case
Tables == {"t1", "t2", "T2"}

(***************************************************************************)
(* Values.  A JSON / DataFrame cell is a tagged value: an integer, a text, *)
(* the null marker (None) or the not-a-number marker (NaN, which pandas    *)
(* puts where a record lacks a key).                                       *)
(***************************************************************************)
I(n)  == [k |-> "int",  n |-> n, s |-> ""]
S(s)  == [k |-> "str",  n |-> 0, s |-> s]
Null  == [k |-> "null", n |-> 0, s |-> ""]
NaN   == [k |-> "nan",  n |-> 0, s |-> ""]

IsMissing(v) == v.k \in {"null", "nan"}

\* str.lower() on the texts of the model
Lower(s) == CASE s = "Z" -> "z"
              [] s = "Y" -> "y"
              [] s = "X" -> "x"
              [] s = "A" -> "a"
              [] s = "T2" -> "t2"
              [] s = "None" -> "none"
              [] OTHER   -> s

\* str(n) for the integers of the model
IntToStr(n) == CASE n = 1 -> "1"
                 [] n = 2 -> "2"
                 [] n = 3 -> "3"
                 [] OTHER -> "0"

\* astype(str) of one cell: str(None) = "None", str(nan) = "nan"
AsTypeStr(v) == CASE v.k = "str"  -> v.s
                  [] v.k = "int"  -> IntToStr(v.n)
                  [] v.k = "null" -> "None"
                  [] v.k = "nan"  -> "nan"

\* to_numeric that keeps what it cannot parse (errors='ignore')
ToNumericIgnore(v) == IF v.k \in {"int", "str"} THEN v ELSE NaN

\* pd.to_numeric(errors='coerce') of one cell: a number, or NaN
ToNumeric(v) == CASE v.k = "int" -> v
                  [] v.k = "str" -> CASE v.s = "1" -> I(1)
                                      [] v.s = "2" -> I(2)
                                      [] v.s = "3" -> I(3)
                                      [] OTHER     -> NaN
                  [] OTHER       -> NaN

(***************************************************************************)
(* Records the remote API may return, and the pages it may serve.          *)
(***************************************************************************)
Rec(id, a) == ("_id" :> id) @@ ("a" :> a)
NoIdRec(a) == ("A" :> a)

R1 == Rec(I(1), S("y"))
R2 == Rec(I(1), S("Z"))
R3 == Rec(I(2), Null)
R4 == Rec(Null, S("y"))
R5 == Rec(S("x"), S("y"))
R6 == NoIdRec(S("y"))

PageChoices == { <<>>, <<R1>>, <<R2>>, <<R3>>, <<R4>>, <<R5>>, <<R6>> }

\* Declared totals: none, and around each multiple of the page size
TotalChoices == {0} \cup { k * limit + 1 : k \in 0..(MaxPages - 1) }
                    \cup { k * limit : k \in 1..MaxPages }

(***************************************************************************)
(* DataFrame helpers (pandas semantics on the values of the model)         *)
(***************************************************************************)
RECURSIVE ColumnsOf(_)
\* column names folded to lower case
ColumnNameLower(key) == Lower(key)

\* etl.py 82: the column that pd.DataFrame gives to a record key
ColumnName(key) == key

\* etl.py 82: pd.DataFrame(all_records), one row per record
DataFrame(recs) ==
  [i \in 1..Len(recs) |->
     [c \in { ColumnName(k) : k \in DOMAIN recs[i] } |->
        recs[i][CHOOSE k \in DOMAIN recs[i] : ColumnName(k) = c]]]

ColumnsOf(recs) ==                   \* pd.DataFrame(all_records).columns
  IF recs = <<>> THEN {} ELSE (DOMAIN Head(recs)) \cup ColumnsOf(Tail(recs))

Cell(rec, c) == IF c \in DOMAIN rec THEN rec[c] ELSE NaN

\* the emptiness test left out
IsEmptyNever(recs) == FALSE

\* df.empty: no rows, or no columns
IsEmpty(recs) == Len(recs) = 0 \/ ColumnsOf(recs) = {}

\* the test for None left out
NoDataEmptyOnly(d) == ~d.none /\ IsEmpty(d.recs)

\* etl.py 106: df is None or df.empty
NoData(d) == d.none \/ IsEmpty(d.recs)

\* df[c].dtype == 'object': some text, or no number at all
IsObject(recs, c) ==
  \/ \E i \in 1..Len(recs) : Cell(recs[i], c).k = "str"
  \/ \A i \in 1..Len(recs) : Cell(recs[i], c).k # "int"

\* lines 111-114 on one cell of column c
NormalizeCell(recs, c, v) ==
  IF IsObject(recs, c)
    THEN S(Lower(AsTypeStr(v)))      \* astype(str).str.lower(); nothing left to replace
    ELSE IF IsMissing(v) THEN Null ELSE v

\* lines 111-114: the data frame after the normalisation loop
Normalize(recs) ==
  [i \in 1..Len(recs) |->
     [c \in ColumnsOf(recs) |-> NormalizeCell(recs, c, Cell(recs[i], c))]]

\* line 117: _id coerced to nullable integers
CoerceId(rows) ==
  [i \in 1..Len(rows) |->
     [c \in DOMAIN rows[i] |-> IF c = "_id" THEN ToNumeric(rows[i][c]) ELSE rows[i][c]]]

HasIdColumn(rows)  == Len(rows) > 0 /\ "_id" \in DOMAIN rows[1]
IdHasNa(rows)      == \E i \in 1..Len(rows) : IsMissing(rows[i]["_id"])
IdIsUnique(rows)   == \A i, j \in 1..Len(rows) : rows[i]["_id"] = rows[j]["_id"] => i = j

\* lines 111-123: the frame handed to the loader, and the verdict of the checks
Sanitize(recs) == IF HasIdColumn(Normalize(recs)) THEN CoerceId(Normalize(recs))
                                                  ELSE Normalize(recs)

\* the checks without the uniqueness test
PkVerdictNoUnique(recs) ==
  LET rows == Sanitize(recs) IN
  IF ~HasIdColumn(rows)  THEN "ok"
  ELSE IF IdHasNa(rows)  THEN "nan_id"
  ELSE "ok"

PkVerdict(recs) ==
  LET rows == Sanitize(recs) IN
  IF ~HasIdColumn(rows)  THEN "ok"
  ELSE IF IdHasNa(rows)  THEN "nan_id"
  ELSE IF ~IdIsUnique(rows) THEN "duplicate_id"
  ELSE "ok"

(***************************************************************************)
(* Relational tables.  A table that does not exist is NoTable.             *)
(***************************************************************************)
NoTable == [exists |-> FALSE, pk |-> FALSE, cols |-> {}, rows |-> <<>>]

\* The name under which the server stores a table whose name is written
\* without quotes in DROP TABLE / CREATE TABLE: folded to lower case
StoredName(name) == Lower(name)

StoredTables == { StoredName(t) : t \in Tables }

\* etl.py 142-144: information_schema.tables has a row whose table_name is
\* the string passed to load
TableListed(name, tbl) == tbl.exists /\ StoredName(name) = name

\* generate_table_schema: identifier clean-up of a column name
CleanName(c) == CASE c = "a b" -> "a_b"
                  [] c = "a:b" -> "a_b"
                  [] c = "a-b" -> "a_b"
                  [] OTHER     -> c

\* generate_table_schema: the table that the generated CREATE TABLE describes
generate_table_schema(rows) ==
  LET columns == IF Len(rows) = 0 THEN {} ELSE DOMAIN rows[1] IN
  [exists |-> TRUE,
   pk     |-> "_id" \in columns,
   cols   |-> { CleanName(c) : c \in columns },
   rows   |-> <<>>]

\* what to_sql / INSERT store for a cell: every missing marker is SQL NULL
SqlCell(v) == IF IsMissing(v) THEN Null ELSE v
SqlRows(rows) == [i \in 1..Len(rows) |-> [c \in DOMAIN rows[i] |-> SqlCell(rows[i][c])]]

IndexOfId(trows, id) ==
  IF \E i \in 1..Len(trows) : trows[i]["_id"] = id
    THEN CHOOSE i \in 1..Len(trows) : trows[i]["_id"] = id
    ELSE 0

\* INSERT ... SELECT ... ON CONFLICT (_id) DO UPDATE SET col = EXCLUDED.col
RECURSIVE UpsertRows(_, _)
UpsertRows(trows, srows) ==
  IF srows = <<>> THEN trows
  ELSE LET r == Head(srows)
           i == IF "_id" \in DOMAIN r THEN IndexOfId(trows, r["_id"]) ELSE 0
       IN  UpsertRows(IF i = 0 THEN Append(trows, r) ELSE [trows EXCEPT ![i] = r],
                      Tail(srows))

\* a plain INSERT ... SELECT without ON CONFLICT (_id): no key is asked for
UpsertAcceptedNoKey(tbl, srows) ==
  LET columns == IF Len(srows) = 0 THEN {} ELSE DOMAIN srows[1] IN
  /\ tbl.exists
  /\ columns \subseteq tbl.cols
  /\ "_id" \in columns =>
        /\ \A i \in 1..Len(srows) : ~IsMissing(srows[i]["_id"])
        /\ \A i, j \in 1..Len(srows) : srows[i]["_id"] = srows[j]["_id"] => i = j

\* The upsert statement is accepted: the target exists with a unique key on
\* _id, every inserted column exists in it, the SET list is not empty, no
\* key is NULL and no target row is hit twice by one statement.
UpsertAccepted(tbl, srows) ==
  LET columns == IF Len(srows) = 0 THEN {} ELSE DOMAIN srows[1] IN
  /\ tbl.exists /\ tbl.pk
  /\ "_id" \in columns
  /\ columns \subseteq tbl.cols
  /\ columns \ {"_id"} # {}
  /\ \A i \in 1..Len(srows) : ~IsMissing(srows[i]["_id"])
  /\ \A i, j \in 1..Len(srows) : srows[i]["_id"] = srows[j]["_id"] => i = j

\* A loader that only appends: no refresh of the target, rows inserted as they come
ExecuteAppendOnly(stmt, tbl, rows) ==
  CASE stmt = "drop"   -> tbl
    [] stmt = "create" -> IF tbl.exists THEN tbl
                          ELSE generate_table_schema(rows)
    [] stmt = "upsert" -> [tbl EXCEPT !.rows = tbl.rows \o rows]
    [] OTHER           -> tbl

\* Effect of one statement of load's transaction on its view of the target:
\*   DROP TABLE IF EXISTS / CREATE TABLE IF NOT EXISTS / the upsert
Execute(stmt, tbl, rows) ==
  CASE stmt = "drop"   -> NoTable
    [] stmt = "create" -> IF tbl.exists THEN tbl ELSE generate_table_schema(rows)
    [] stmt = "upsert" -> [tbl EXCEPT !.rows = UpsertRows(tbl.rows, rows)]
    [] OTHER           -> tbl

\* autocommit left on: what was pending is what is stored
RollbackKeepsPending(committed, pending, t) == [committed EXCEPT ![t] = pending]

\* conn.rollback() (or closing the connection without commit): pending work is dropped
Rollback(committed, pending, t) == committed

\* the commit left out: the connection is closed with the work pending
CommitForgotten(committed, pending, t) == committed

\* conn.commit(): the pending view of the target becomes the stored table
Commit(committed, pending, t) == [committed EXCEPT ![t] = pending]

\* pages counted with total // limit: a last, partial page is not requested
MorePagesFullOnly(off, tot) == off + limit <= tot

\* range(0, total, limit): another offset is left
MorePages(off, tot) == off < tot

\* a failed page treated like a failed extraction
BreakResultNone(recs) == [none |-> TRUE, recs |-> <<>>]

\* etl.py 79-84: after the break the records collected so far are returned
BreakResult(recs) == [none |-> FALSE, recs |-> recs]

RECURSIVE Flatten(_)
Flatten(pages) == IF pages = <<>> THEN <<>> ELSE Head(pages) \o Flatten(Tail(pages))

(***************************************************************************)
(* State                                                                   *)
(***************************************************************************)
VARIABLES
  resources,      \* main: the catalog, a sequence of [resource_id, table_name]
  idx,            \* main: position of the for loop in the catalog
  pc,             \* where main / load / extractor stands
  db,             \* stored (committed) target tables, by name
  view,           \* load: its transaction's view of the target table
  conn,           \* load: "closed" or "open" (the psycopg2 connection)
  stagingTables,  \* stored staging tables, by their unique suffix
  staged,         \* rows of the staging table written by the current load
  nextSuffix,     \* stands for uuid4(): the next unused staging suffix
  total,          \* extractor: declared total of the probe
  offset,         \* extractor: offset of the next page request
  all_records,    \* extractor: records collected so far
  df,             \* load: [none |-> TRUE] or the extracted records
  requests,       \* history: page requests issued by the current extraction
  pagesGot,       \* history: pages received with status 200, in order
  attempts,       \* history: attempts the last request took
  extractEnd,     \* history: how the current extraction ended
  pre,            \* history: db when the current load began
  stmts,          \* history: statements the current load has executed
  outcome,        \* history: "running" | "returned" | "raised" | "committed"
  note,           \* history: why the last load returned / where it raised
  attempted,      \* history: catalog positions main has called load for
  raisedBefore,   \* history: some load of this run raised
  lastLoaded,     \* history: per table, the records of its last committed load
  sameAsLast,     \* history: the last commit loaded what the commit before it loaded
  monitoring,     \* rows of a monitoring table: main and load write none
  engineOpen      \* the connection opened by the engine of the current load's to_sql is open

vars == << resources, idx, pc, db, view, conn, stagingTables, staged, nextSuffix,
           total, offset, all_records, df, requests, pagesGot, attempts, extractEnd,
           pre, stmts, outcome, note, attempted, raisedBefore, lastLoaded, sameAsLast,
           monitoring, engineOpen >>

extractorVars == << total, offset, all_records, requests, pagesGot, attempts, extractEnd >>

NoDf      == [none |-> TRUE,  recs |-> <<>>]
Df(recs)  == [none |-> FALSE, recs |-> recs]
NeverLoaded == [none |-> TRUE, recs |-> <<>>]

target == resources[idx].table_name
stored == StoredName(target)       \* the table that the statements of load act on

status_forcelist == {429, 500, 502, 503, 504}

\* main.py 25-46: a catalog.  Table names are interchangeable, so the first
\* entry's is called "t1"; a name may occur again later in the catalog.  The
\* names of main.py are in lower case; a name that is not is tried as the
\* last entry.
Catalogs == { c \in [1..CatalogLen -> [resource_id : {"r"}, table_name : Tables]] :
                /\ c[1].table_name = "t1"
                /\ \A i \in 1..(CatalogLen - 1) :
                      StoredName(c[i].table_name) = c[i].table_name }

\* main.py 16-46: create_database has run, the database is empty
Init ==
  /\ resources \in Catalogs
  /\ idx = 1
  /\ pc = "loop"
  /\ db = [t \in StoredTables |-> NoTable]
  /\ view = NoTable
  /\ conn = "closed"
  /\ stagingTables = {}
  /\ staged = <<>>
  /\ nextSuffix = 1
  /\ total = 0 /\ offset = 0 /\ all_records = <<>> /\ df = NoDf
  /\ requests = <<>> /\ pagesGot = <<>> /\ attempts = 0 /\ extractEnd = "none"
  /\ pre = db
  /\ stmts = <<>>
  /\ outcome = "none" /\ note = "none"
  /\ attempted = <<>>
  /\ raisedBefore = FALSE
  /\ lastLoaded = [t \in StoredTables |-> NeverLoaded]
  /\ monitoring = <<>>
  /\ engineOpen = FALSE
  /\ sameAsLast = FALSE

(***************************************************************************)
(* main: the for loop and its try / except                                 *)
(***************************************************************************)
\* an except clause that lets the failure of one entry end the run
AfterLoadReraise(kind) == IF kind = "raised" THEN "crashed" ELSE "loop"

\* main.py 50-54: whatever load did (returned or raised), the loop goes on
AfterLoad(kind) == "loop"

\* load is left: the finally block closes the connection (which discards any
\* transaction still open) and main moves to the next entry
EndLoad(kind, why) ==
  /\ conn' = "closed"
  /\ view' = NoTable
  /\ staged' = <<>>
  /\ outcome' = kind
  /\ note' = why
  /\ raisedBefore' = (raisedBefore \/ kind = "raised")
  /\ idx' = idx + 1
  /\ pc' = AfterLoad(kind)

\* except Exception: conn.rollback(); raise
Raise(step) ==
  /\ db' = Rollback(db, view, stored)
  /\ stmts' = Append(stmts, step)
  /\ EndLoad("raised", step)

\* a return inside the try block: nothing is committed
Return(why) ==
  /\ db' = Rollback(db, view, stored)
  /\ EndLoad("returned", why)

\* main.py 48-51 and etl.py 90-96: the next entry; psycopg2.connect
StartLoad ==
  /\ pc = "loop" /\ idx <= CatalogLen
  /\ attempted' = Append(attempted, idx)
  /\ pre' = db
  /\ stmts' = <<>>
  /\ df' = NoDf
  /\ sameAsLast' = FALSE
  /\ total' = 0 /\ offset' = 0 /\ all_records' = <<>>
  /\ requests' = <<>> /\ pagesGot' = <<>> /\ attempts' = 0 /\ extractEnd' = "none"
  /\ \/ /\ conn' = "open"                     \* connected, transaction begins
        /\ view' = db[stored]
        /\ pc' = "privilege"
        /\ outcome' = "running" /\ note' = "none"
        /\ UNCHANGED << idx, raisedBefore, staged >>
     \/ /\ EndLoad("raised", "connect")       \* psycopg2.Error, re-raised
  /\ engineOpen' = FALSE                       \* this load has made no engine yet
  /\ UNCHANGED << resources, monitoring, db, stagingTables, nextSuffix, lastLoaded >>

\* main.py 48: the catalog is exhausted
MainReturn ==
  /\ pc = "loop" /\ idx > CatalogLen
  /\ pc' = "done"
  /\ UNCHANGED << resources, monitoring, engineOpen, idx, db, view, conn, stagingTables, staged, nextSuffix,
                  df, extractorVars, pre, stmts, outcome, note, attempted,
                  raisedBefore, lastLoaded, sameAsLast >>

(***************************************************************************)
(* load, before the extraction                                             *)
(***************************************************************************)
\* etl.py 100-103
CheckPrivilege ==
  /\ pc = "privilege"
  /\ \/ /\ pc' = "probe"                       \* has CREATE privilege
        /\ stmts' = Append(stmts, "has_schema_privilege")
        /\ UNCHANGED << idx, db, view, conn, staged, outcome, note, raisedBefore >>
     \/ /\ stmts' = Append(stmts, "has_schema_privilege")
        /\ Return("no_privilege")
     \/ Raise("has_schema_privilege")
  /\ UNCHANGED << resources, monitoring, engineOpen, stagingTables, nextSuffix, df, extractorVars,
                  pre, attempted, lastLoaded, sameAsLast >>

(***************************************************************************)
(* extractor                                                               *)
(***************************************************************************)
\* etl.py 66-68: the probe, limit 1; any failure is caught at line 85
Probe ==
  /\ pc = "probe"
  /\ \E n \in 1..(RetryTotal + 1) :
       /\ attempts' = n
       /\ \/ /\ \E t \in TotalChoices : total' = t
             /\ offset' = 0
             /\ pc' = "page"
             /\ UNCHANGED << df, extractEnd >>
          \/ /\ df' = NoDf                      \* HTTPError, bad body, or retries used up
             /\ extractEnd' = "probe_failed"
             /\ pc' = "check_df"
             /\ UNCHANGED << total, offset >>
  /\ UNCHANGED << resources, monitoring, engineOpen, idx, db, view, conn, stagingTables, staged, nextSuffix,
                  all_records, requests, pagesGot, pre, stmts, outcome, note,
                  attempted, raisedBefore, lastLoaded, sameAsLast >>

\* etl.py 72-81: one page request, with the retries of the mounted adapter
FetchPage ==
  /\ pc = "page" /\ MorePages(offset, total)
  /\ requests' = Append(requests, [offset |-> offset, limit |-> limit])
  /\ \E n \in 1..(RetryTotal + 1) :
       /\ attempts' = n
       /\ \/ \E page \in PageChoices :           \* status 200
               /\ all_records' = all_records \o page
               /\ pagesGot' = Append(pagesGot, page)
               /\ offset' = offset + limit
               /\ UNCHANGED << pc, df, extractEnd >>
          \/ \E code \in {204, 400, 404} :       \* a response that is not 200: break
               /\ code \notin status_forcelist
               /\ df' = BreakResult(DataFrame(all_records))
               /\ extractEnd' = "status"
               /\ pc' = "check_df"
               /\ UNCHANGED << all_records, pagesGot, offset >>
          \/ /\ n = RetryTotal + 1               \* 429/5xx or network error on every
             /\ df' = NoDf                       \* attempt: session.get raises
             /\ extractEnd' = "exhausted"
             /\ pc' = "check_df"
             /\ UNCHANGED << all_records, pagesGot, offset >>
          \/ /\ df' = NoDf                       \* 200 with a body json() rejects
             /\ extractEnd' = "malformed"
             /\ pc' = "check_df"
             /\ UNCHANGED << all_records, pagesGot, offset >>
  /\ UNCHANGED << resources, monitoring, engineOpen, idx, db, view, conn, stagingTables, staged, nextSuffix,
                  total, pre, stmts, outcome, note, attempted, raisedBefore,
                  lastLoaded, sameAsLast >>

\* etl.py 82-84: the range is exhausted
ExtractorReturn ==
  /\ pc = "page" /\ ~MorePages(offset, total)
  /\ df' = Df(DataFrame(all_records))
  /\ extractEnd' = "complete"
  /\ pc' = "check_df"
  /\ UNCHANGED << resources, monitoring, engineOpen, idx, db, view, conn, stagingTables, staged, nextSuffix,
                  total, offset, all_records, requests, pagesGot, attempts,
                  pre, stmts, outcome, note, attempted, raisedBefore,
                  lastLoaded, sameAsLast >>

(***************************************************************************)
(* load, after the extraction                                              *)
(***************************************************************************)
\* etl.py 105-108
CheckDf ==
  /\ pc = "check_df"
  /\ total' = 0 /\ offset' = 0 /\ all_records' = <<>>
  /\ requests' = <<>> /\ pagesGot' = <<>> /\ attempts' = 0
  /\ UNCHANGED extractEnd
  /\ IF NoData(df)
       THEN Return("no_data")
       ELSE /\ pc' = "process"
            /\ UNCHANGED << idx, db, view, conn, staged, outcome, note, raisedBefore >>
  /\ UNCHANGED << resources, monitoring, engineOpen, stagingTables, nextSuffix, df, pre, stmts, attempted,
                  lastLoaded, sameAsLast >>

\* etl.py 111-128: normalisation and the primary-key checks
Process ==
  /\ pc = "process"
  /\ IF PkVerdict(df.recs) # "ok"
       THEN Return(PkVerdict(df.recs))
       ELSE /\ pc' = "search_path"
            /\ UNCHANGED << idx, db, view, conn, staged, outcome, note, raisedBefore >>
  /\ UNCHANGED << resources, monitoring, engineOpen, stagingTables, nextSuffix, df, extractorVars, pre, stmts,
                  attempted, lastLoaded, sameAsLast >>

\* A statement of the transaction that only changes the view of the target
Statement(at, stmt, next) ==
  /\ pc = at
  /\ \/ /\ view' = Execute(stmt, view, Sanitize(df.recs))
        /\ stmts' = Append(stmts, stmt)
        /\ pc' = next
        /\ UNCHANGED << idx, db, conn, staged, outcome, note, raisedBefore >>
     \/ Raise(stmt)
  /\ UNCHANGED << resources, monitoring, engineOpen, stagingTables, nextSuffix, df, extractorVars, pre,
                  attempted, lastLoaded, sameAsLast >>

\* etl.py 131-132
ShowSearchPath == Statement("search_path", "show_search_path", "drop")

\* etl.py 135-137: DROP TABLE IF EXISTS
DropTarget == Statement("drop", "drop", "create")

\* the existence check left out: from CREATE straight to the staging write
CreateTargetSkipsVerify == Statement("create", "create", "staging")

\* etl.py 138: the generated CREATE TABLE IF NOT EXISTS
CreateTarget == Statement("create", "create", "verify")

\* etl.py 142-147: the existence check inside the transaction
VerifyTarget ==
  /\ pc = "verify"
  /\ \/ /\ stmts' = Append(stmts, "verify")
        /\ IF TableListed(target, view)
             THEN /\ pc' = "staging"
                  /\ UNCHANGED << idx, db, view, conn, staged, outcome, note, raisedBefore >>
             ELSE Return("not_created")
     \/ Raise("verify")
  /\ UNCHANGED << resources, monitoring, engineOpen, stagingTables, nextSuffix, df, extractorVars, pre,
                  attempted, lastLoaded, sameAsLast >>

\* etl.py 150-153: to_sql through an engine of its own; what it writes is
\* stored at once, outside load's transaction
WriteStaging ==
  /\ pc = "staging"
  /\ \/ /\ stagingTables' = stagingTables \cup {nextSuffix}
        /\ nextSuffix' = nextSuffix + 1
        /\ staged' = SqlRows(Sanitize(df.recs))
        /\ stmts' = Append(stmts, "to_sql")
        /\ pc' = "upsert"
        /\ engineOpen' = TRUE                  \* the engine's pool keeps its connection
        /\ UNCHANGED << idx, db, view, conn, outcome, note, raisedBefore >>
     \/ /\ Raise("to_sql")                       \* before or after the engine connected
        /\ engineOpen' \in {engineOpen, TRUE}
        /\ UNCHANGED << stagingTables, nextSuffix >>
  /\ UNCHANGED << resources, monitoring, df, extractorVars, pre, attempted, lastLoaded, sameAsLast >>

\* etl.py 156-164
Upsert ==
  /\ pc = "upsert"
  /\ \/ /\ UpsertAccepted(view, staged)
        /\ view' = Execute("upsert", view, staged)
        /\ stmts' = Append(stmts, "upsert")
        /\ pc' = "drop_staging"
        /\ UNCHANGED << idx, db, conn, staged, outcome, note, raisedBefore >>
     \/ Raise("upsert")                          \* rejected, or a failure of the server
  /\ UNCHANGED << resources, monitoring, engineOpen, stagingTables, nextSuffix, df, extractorVars, pre,
                  attempted, lastLoaded, sameAsLast >>

\* etl.py 167: DROP TABLE of the staging table, pending until the commit
DropStaging ==
  /\ pc = "drop_staging"
  /\ \/ /\ stmts' = Append(stmts, "drop_staging")
        /\ pc' = "commit"
        /\ UNCHANGED << idx, db, view, conn, staged, outcome, note, raisedBefore >>
     \/ Raise("drop_staging")
  /\ UNCHANGED << resources, monitoring, engineOpen, stagingTables, nextSuffix, df, extractorVars, pre,
                  attempted, lastLoaded, sameAsLast >>

\* etl.py 170: the target as the transaction left it and the drop of the
\* staging table become stored together
CommitLoad ==
  /\ pc = "commit"
  /\ \/ /\ db' = Commit(db, view, stored)
        /\ stagingTables' = stagingTables \ {nextSuffix - 1}
        /\ stmts' = Append(stmts, "commit")
        /\ lastLoaded' = [lastLoaded EXCEPT ![stored] = df]
        /\ sameAsLast' = (lastLoaded[stored] = df)
        /\ EndLoad("committed", "none")
     \/ /\ Raise("commit")
        /\ UNCHANGED << stagingTables, lastLoaded, sameAsLast >>
  /\ UNCHANGED << resources, monitoring, engineOpen, nextSuffix, df, extractorVars, pre, attempted >>

\* etl.py 152: the engine made by create_engine is referenced by nothing once
\* to_sql has returned and is never disposed; its pooled connection is closed
\* whenever the interpreter finalizes it
EngineCollected ==
  /\ engineOpen
  /\ engineOpen' = FALSE
  /\ UNCHANGED << resources, idx, pc, db, view, conn, stagingTables, staged, nextSuffix,
                  df, extractorVars, pre, stmts, outcome, note, attempted, raisedBefore,
                  lastLoaded, sameAsLast, monitoring >>

Next ==
  \/ StartLoad
  \/ MainReturn
  \/ CheckPrivilege
  \/ Probe
  \/ FetchPage
  \/ ExtractorReturn
  \/ CheckDf
  \/ Process
  \/ ShowSearchPath
  \/ DropTarget
  \/ CreateTarget
  \/ VerifyTarget
  \/ WriteStaging
  \/ Upsert
  \/ DropStaging
  \/ CommitLoad
  \/ EngineCollected

Spec == Init /\ [][Next]_vars

(***************************************************************************)
(* Properties                                                              *)
(***************************************************************************)
\* the table name given to the load that is running or was run last, and
\* the stored table it stands for
CurName   == resources[attempted[Len(attempted)]].table_name
CurTarget == StoredName(CurName)

LoadOver == pc \in {"loop", "done"} /\ attempted # <<>>

\* statements that define or change data
DataStmts == {"drop", "create", "to_sql", "upsert", "drop_staging", "commit"}
NoDataStmt == \A i \in 1..Len(stmts) : stmts[i] \notin DataStmts

LoaderSteps == {"drop", "create", "verify", "to_sql", "upsert", "drop_staging"}

\* C1: when a step of the loader raises, the stored tables are exactly what
\* they were when the load began; and while a load is running nothing it has
\* dropped, created or inserted is stored.
Thm_C1 ==
  /\ (outcome = "raised" /\ note \in LoaderSteps) => db = pre
  /\ outcome = "running" => db = pre

\* a load raised at the upsert, after DROP and CREATE, over a target that held rows
Wit_C1 ==
  /\ LoadOver /\ outcome = "raised" /\ note = "upsert"
  /\ \E i \in 1..Len(stmts) : stmts[i] = "drop"
  /\ Len(pre[CurTarget].rows) > 0

\* the extraction of the current load has given a data frame
Extracted == ~df.none /\ pc \notin {"privilege", "probe", "page"}

\* the extracted records have an _id column with two equal values
RawDuplicateIds(recs) ==
  /\ "_id" \in ColumnsOf(recs)
  /\ \E i, j \in 1..Len(recs) : i # j /\ Cell(recs[i], "_id") = Cell(recs[j], "_id")

\* the extracted records have an _id column with a value that is null, not a
\* number, or a text that is not a number
RawMissingId(recs) ==
  /\ "_id" \in ColumnsOf(recs)
  /\ \E i \in 1..Len(recs) :
        LET v == Cell(recs[i], "_id") IN
        \/ v.k \in {"null", "nan"}
        \/ v.k = "str" /\ v.s \notin {"1", "2", "3"}

\* the load of the extracted frame went no further than the checks, executed
\* no statement that defines or changes data, and left every stored table alone
RejectedUntouched(why) ==
  /\ pc \in {"check_df", "process", "loop", "done"}
  /\ NoDataStmt
  /\ db = pre
  /\ LoadOver => outcome = "returned" /\ note \in why

\* C2: a data set whose _id values are not pairwise unique is rejected before
\* any DROP, CREATE or DML statement is executed, and the stored target is
\* unchanged when load returns.
Thm_C2 ==
  (Extracted /\ RawDuplicateIds(df.recs)) => RejectedUntouched({"duplicate_id", "nan_id"})

\* ids [1, 1] rejected as duplicates over a target that held rows
Wit_C2 ==
  /\ LoadOver /\ note = "duplicate_id"
  /\ RawDuplicateIds(df.recs)
  /\ stmts = <<"has_schema_privilege">>
  /\ Len(pre[CurTarget].rows) > 0

\* C3: a data set with a missing _id value (null, not-a-number, or a text that
\* is no number) is rejected with no DROP, CREATE, staging write, upsert or
\* commit; the check sees the frame after the normalisation of lines 111-114.
Thm_C3 ==
  (Extracted /\ RawMissingId(df.recs)) => RejectedUntouched({"nan_id"})

\* a null _id, in a column that the normalisation turned into text, rejected
\* over a target that held rows
Wit_C3 ==
  /\ LoadOver /\ note = "nan_id"
  /\ \E i \in 1..Len(df.recs) : Cell(df.recs[i], "_id").k = "null"
  /\ IsObject(df.recs, "_id")
  /\ NoDataStmt
  /\ Len(pre[CurTarget].rows) > 0

\* C4: a data set of zero rows makes load return without DROP, CREATE,
\* staging write, upsert or commit; the stored target is what it was.
Thm_C4 ==
  (Extracted /\ Len(df.recs) = 0) => /\ RejectedUntouched({"no_data"})
                                     /\ pc # "process"

\* zero rows extracted (pages were requested and came back empty) over a
\* target that held rows
Wit_C4 ==
  /\ LoadOver /\ note = "no_data" /\ ~df.none /\ Len(df.recs) = 0
  /\ extractEnd = "complete"
  /\ Len(pre[CurTarget].rows) > 0
  /\ db[CurTarget] = pre[CurTarget]

\* the stored cell for a cell of the frame
Stored(v) == IF v.k \in {"null", "nan"} THEN Null ELSE v

\* table rows holding exactly the rows of frame D, one per _id
HoldsExactly(trows, D) ==
  /\ Len(trows) = Len(D)
  /\ \A i \in 1..Len(D) :
        /\ Cardinality({ j \in 1..Len(trows) : trows[j]["_id"] = D[i]["_id"] }) = 1
        /\ \E j \in 1..Len(trows) :
              /\ DOMAIN trows[j] = DOMAIN D[i]
              /\ \A c \in DOMAIN D[i] : trows[j][c] = Stored(D[i][c])

\* C5: after a load that commits, the stored target holds exactly one row per
\* _id of the data set handed to the loader (the frame after lines 111-128),
\* each equal to the data set's row for that _id, whatever the target held.
Thm_C5 ==
  (LoadOver /\ outcome = "committed") =>
     /\ db[CurTarget].exists
     /\ HoldsExactly(db[CurTarget].rows, Sanitize(df.recs))
     /\ \A t \in StoredTables \ {CurTarget} : db[t] = pre[t]

\* over a target holding (_id 1, "y") a data set with _id 1 (other text) and
\* _id 2 was committed: one row updated, one inserted
Wit_C5 ==
  /\ LoadOver /\ outcome = "committed"
  /\ pre[CurTarget].rows = << Rec(I(1), S("y")) >>
  /\ Len(db[CurTarget].rows) = 2
  /\ \E j \in 1..2 : db[CurTarget].rows[j] = Rec(I(1), S("z"))
  /\ \E j \in 1..2 : db[CurTarget].rows[j]["_id"] = I(2)

\* C6: a committed load of the records that the previous committed load of
\* the same target loaded leaves the target as that previous load left it:
\* same number of rows, same rows.
Thm_C6 ==
  (LoadOver /\ outcome = "committed" /\ sameAsLast) =>
     /\ db[CurTarget] = pre[CurTarget]
     /\ Len(db[CurTarget].rows) = Len(df.recs)

\* the same two records committed twice in succession into one target
Wit_C6 ==
  /\ LoadOver /\ outcome = "committed" /\ sameAsLast
  /\ Len(df.recs) = 2
  /\ Len(db[CurTarget].rows) = 2

\* C7: the loop never ends by an exception of load; load is called for the
\* catalog entries in catalog order, each once; when the run ends every entry
\* has been attempted.
Thm_C7 ==
  /\ pc # "crashed"
  /\ attempted = [i \in 1..Len(attempted) |-> i]
  /\ Len(attempted) = IF pc \in {"loop", "done"} THEN idx - 1 ELSE idx
  /\ pc = "done" => Len(attempted) = CatalogLen

\* the run ended with every entry attempted; a load raised and the last
\* entry, after it, was committed
Wit_C7 ==
  /\ pc = "done" /\ Len(attempted) = CatalogLen
  /\ raisedBefore
  /\ outcome = "committed"
  /\ Len(db[CurTarget].rows) > 0

\* ceil(t / p)
CeilDiv(t, p) == (t + p - 1) \div p

\* the page requests issued so far are at offsets 0, limit, 2 * limit, ...,
\* below the declared total, each with the same limit
RequestsInOrder ==
  \A i \in 1..Len(requests) :
     /\ requests[i].offset = (i - 1) * limit
     /\ requests[i].offset < total
     /\ requests[i].limit = limit

\* C8: when every page request succeeds, exactly ceil(total / limit) requests
\* are issued, at offsets 0, limit, 2 * limit, ... below the total, all with
\* limit as page size, and the data set is the pages' records in request order.
Thm_C8 ==
  (pc = "check_df" /\ extractEnd = "complete") =>
     /\ Len(requests) = CeilDiv(total, limit)
     /\ RequestsInOrder
     /\ Len(pagesGot) = Len(requests)
     /\ ~df.none
     /\ df.recs = Flatten(pagesGot)

\* a total of limit + 1: two requests, at offsets 0 and limit, one record each
Wit_C8 ==
  /\ pc = "check_df" /\ extractEnd = "complete"
  /\ total = limit + 1
  /\ Len(requests) = 2 /\ requests[2].offset = limit
  /\ pagesGot = << <<R1>>, <<R3>> >>
  /\ df.recs = << R1, R3 >>

\* C9: a page request answered with a status other than 200 is the last
\* request of the extraction, and the extractor returns the records of the
\* pages received before it, in request order.
Thm_C9 ==
  (pc = "check_df" /\ extractEnd = "status") =>
     /\ ~df.none
     /\ df.recs = Flatten(pagesGot)
     /\ Len(requests) = Len(pagesGot) + 1
     /\ Len(requests) <= CeilDiv(total, limit)
     /\ RequestsInOrder

\* the second page was refused: the first page's record is returned
Wit_C9 ==
  /\ pc = "check_df" /\ extractEnd = "status"
  /\ Len(requests) = 2 /\ Len(pagesGot) = 1
  /\ requests[2].offset = limit
  /\ df.recs = << R1 >>

\* C10: a page request that fails on every attempt of the retry budget ends
\* the pagination like a refused page: the records of the pages received
\* before it are returned; no request takes more than 1 + RetryTotal attempts.
Cex_C10 ==
  /\ attempts <= 1 + RetryTotal
  /\ (pc = "check_df" /\ extractEnd = "exhausted") => df.recs = Flatten(pagesGot)

\* C11: when the probe fails the extractor issues no page request and gives
\* no data set; load returns (it does not raise) without a statement that
\* defines or changes data, the stored tables are what they were, and main
\* goes on to the next entry.
Thm_C11 ==
  extractEnd = "probe_failed" =>
     /\ requests = <<>> /\ pagesGot = <<>>
     /\ df.none
     /\ pc \in {"check_df", "loop", "done"}
     /\ NoDataStmt
     /\ db = pre
     /\ LoadOver => /\ outcome = "returned" /\ note = "no_data"
                    /\ idx = attempted[Len(attempted)] + 1

\* the probe of the first entry failed over nothing, main went on, and the
\* probe of the second entry failed over a target that held rows
Wit_C11 ==
  /\ LoadOver /\ extractEnd = "probe_failed"
  /\ outcome = "returned"
  /\ Len(attempted) = 2
  /\ Len(pre[CurTarget].rows) > 0
  /\ db[CurTarget] = pre[CurTarget]

\* C12: when the existence check does not find the target, load ends by
\* raising: nothing it did is stored, no staging write or upsert follows.
Cex_C12 ==
  (LoadOver /\ stmts # <<>> /\ stmts[Len(stmts)] = "verify"
            /\ StoredName(CurName) # CurName) =>
     /\ outcome = "raised"
     /\ db = pre

\* C13: every load attempt appends exactly one monitoring record whatever
\* its outcome, so once a load is over there are as many monitoring records
\* as loads attempted (and after the run as many as catalog entries).
Cex_C13 ==
  /\ LoadOver => Len(monitoring) = Len(attempted)
  /\ pc = "done" => Len(monitoring) = Len(resources)

\* C14: in the rows written to staging, and in the rows a commit stores,
\* every value that was missing in the extracted record (null or not a
\* number) is the null, in columns of every type, and every text value
\* is the same text in lower case.
Cex_C14 ==
  /\ pc = "upsert" =>
       \A i \in 1..Len(df.recs) : \A c \in ColumnsOf(df.recs) \ {"_id"} :
          LET v == Cell(df.recs[i], c) IN
          /\ IsMissing(v) => staged[i][c] = Null
          /\ v.k = "str"  => staged[i][c] = S(Lower(v.s))
  /\ (LoadOver /\ outcome = "committed") =>
       \A i \in 1..Len(df.recs) : \A c \in ColumnsOf(df.recs) \ {"_id"} :
          IsMissing(Cell(df.recs[i], c)) =>
             \A j \in 1..Len(db[CurTarget].rows) :
                db[CurTarget].rows[j]["_id"] = Sanitize(df.recs)[i]["_id"]
                   => db[CurTarget].rows[j][c] = Null

\* the keys of the records that the API returned to the current extraction
ApiKeys == UNION { DOMAIN r : r \in { Flatten(pagesGot)[i] : i \in 1..Len(Flatten(pagesGot)) } }

\* The dataset's columns once load has executed CREATE TABLE
CreatedFrom(cols) == { CleanName(c) : c \in cols }

\* C15 as stated: the columns of the extracted dataset are lower case, and
\* every key returned by the API appears in it lower-cased.
Cex_C15 ==
  (pc = "check_df" /\ ~df.none) =>
     /\ \A c \in ColumnsOf(df.recs) : c = Lower(c)
     /\ \A k \in ApiKeys : Lower(k) \in ColumnsOf(df.recs)

\* C15 amended: the columns of the extracted dataset are the keys returned
\* by the API with their case unchanged, and the table that load creates
\* carries them (after the identifier clean-up) in that same case.
Thm_C15 ==
  /\ (pc = "check_df" /\ ~df.none) => ColumnsOf(df.recs) = ApiKeys
  /\ (pc \in {"verify", "staging", "upsert"} /\ Len(df.recs) > 0) =>
        view.cols = CreatedFrom(ColumnsOf(df.recs))

\* a record with the upper-case key "A" was extracted, and later the table
\* created for it has the column "A" and none called "a"
Wit_C15 ==
  /\ pc = "upsert"
  /\ "A" \in ColumnsOf(df.recs)
  /\ "A" \in view.cols /\ "a" \notin view.cols

\* C16: once a load has returned or raised, on whatever path, no staging
\* table that it created is left in the database.
Cex_C16 ==
  LoadOver => stagingTables = {}

\* C17: a load has one connection: while its connection is open no second
\* one is, and once it has returned or raised no connection that it opened
\* is still open.
Cex_C17 ==
  /\ conn = "open" => ~engineOpen
  /\ LoadOver => conn = "closed" /\ ~engineOpen

\* etl.py 137-170: the steps of the loader in the order of the code
Protocol == << "drop", "create", "verify", "to_sql", "upsert", "drop_staging", "commit" >>

\* the steps of the loader that the current load has started, in order
StepsDone == SelectSeq(stmts, LAMBDA x : x \in DataStmts \cup {"verify"})

\* C18: the steps that a load has started are always the first steps of the
\* protocol, in its order and each once; a load that commits has run all
\* seven; the commit is reached only with the six steps before it done and
\* none of them failed.
Thm_C18 ==
  /\ Len(StepsDone) <= Len(Protocol)
  /\ StepsDone = SubSeq(Protocol, 1, Len(StepsDone))
  /\ (LoadOver /\ outcome = "committed") => StepsDone = Protocol
  /\ pc = "commit" => /\ outcome = "running"
                      /\ StepsDone = SubSeq(Protocol, 1, 6)
  /\ (LoadOver /\ "commit" \in { stmts[i] : i \in 1..Len(stmts) } /\ outcome # "committed")
        => outcome = "raised" /\ note = "commit"

\* a load committed after its seven steps, over a target that held rows
Wit_C18 ==
  /\ LoadOver /\ outcome = "committed"
  /\ StepsDone = Protocol
  /\ Len(pre[CurTarget].rows) > 0
  /\ Len(attempted) = 2

\* the extracted dataset has rows and columns but no _id column
NoIdColumn == Extracted /\ ~IsEmpty(df.recs) /\ "_id" \notin ColumnsOf(df.recs)

\* C19: a non-empty dataset without an _id column is never committed: the
\* primary-key checks do not stop it, the target is dropped and recreated
\* only inside the transaction, the upsert is never accepted, and when
\* the load is over it has raised (unless the existence check ended it
\* before the upsert) and the stored tables are what they were.
Thm_C19 ==
  NoIdColumn =>
     /\ PkVerdict(df.recs) = "ok"
     /\ outcome # "committed"
     /\ db = pre
     /\ pc \notin {"drop_staging", "commit"}
     /\ pc = "upsert" => ~UpsertAccepted(view, staged)
     /\ LoadOver => \/ outcome = "raised"
                    \/ outcome = "returned" /\ note = "not_created"
                                            /\ StoredName(CurName) # CurName

\* a dataset without _id got past the checks, the target that held rows was
\* dropped and recreated, the staging table was written, the upsert raised
\* and the target holds its rows as before
Wit_C19 ==
  /\ NoIdColumn /\ LoadOver
  /\ outcome = "raised" /\ note = "upsert"
  /\ SubSeq(StepsDone, 1, 4) = << "drop", "create", "verify", "to_sql" >>
  /\ Len(pre[CurTarget].rows) > 0
  /\ db[CurTarget] = pre[CurTarget]

====
